---- MODULE Spec2Model ----
(***************************************************************************)
(* Torrent creation task registry of qBittorrent (rcarpa fork).            *)
(*                                                                         *)
(* The repository holds three variants of the same registry:               *)
(*   "byId"       TorrentCreationManager whose success/failure slots are   *)
(*                lambdas that look the task up by its id at delivery,     *)
(*   "direct"     TorrentCreationManager whose three signals are connected *)
(*                to the TorrentCreationTask object itself,                *)
(*   "controller" MetafileController, which owns the task map itself and   *)
(*                keeps only the inline content of a result.               *)
(* The variant is fixed in the initial state; every action follows the     *)
(* code of the variant it runs in.                                         *)
(*                                                                         *)
(* Signals of a TorrentCreator are raised on a pool thread and received by *)
(* objects living in the dispatching thread, so each connection is queued: *)
(* a raised signal is a posted event, delivered later by the dispatching   *)
(* thread, and destroying a receiver drops the events posted to it.        *)
(***************************************************************************)
EXTENDS Integers, Sequences, FiniteSets, TLC

\* ---------------------------------------------------------------- bounds
MaxTasks == 2      \* createTask calls in one run (task/worker objects)
MaxPending == 1    \* posted, not yet delivered events of one worker
MaxThreads == 1    \* threads of the pool

\* ---------------------------------------------------------------- domains
Variants == {"byId", "direct", "controller"}
Ids == {"a", "b"}                 \* strings QUuid::createUuid can yield
Objs == 1..MaxTasks               \* k names the k-th task and its worker
NoObj == 0                        \* nullptr / end()
Msgs == {"", "err"}               \* failure messages
Contents == {"", "c"}             \* inline bytes of a result
Paths == {"", "p"}                \* output path of a result
ProgressVals == {50, 100}
AutoPieceSize == 0                \* pieceSize of a request that leaves it out
ResultPieceSizes == {16}          \* piece sizes a worker can report
Threads == {"t1", "t2"}           \* threads calling createTask concurrently

\* a result carries inline bytes or an output path, or neither
Results == {r \in [content : Contents, path : Paths, pieceSize : ResultPieceSizes] :
              r.content = "" \/ r.path = ""}
NoResult == [content |-> "", path |-> "", pieceSize |-> 0]

\* what opening and reading the file at a result's path can give
FileStates == {[open |-> FALSE, bytes |-> ""], [open |-> TRUE, bytes |-> "f"]}

Params == [inputPath : {"in"}, pieceSize : {AutoPieceSize}]

Events == [kind : {"progress"}, value : ProgressVals]
          \cup [kind : {"failure"}, msg : Msgs]
          \cup [kind : {"success"}, result : Results]

NoRet == [op |-> "none"]

VARIABLES
    variant,     \* which of the three sources runs
    m_instance,  \* TorrentCreationManager::m_instance: 0 is null
    m_tasks,     \* id -> task object (NoObj: not contained)
    task,        \* the TorrentCreationTask objects
    worker,      \* the TorrentCreator objects
    posted,      \* per worker: events posted to the dispatching thread
    created,     \* number of task/worker objects constructed so far
    caller,      \* position of each thread inside createTask
    destructing, \* ~TorrentCreationManager is running on the dispatching thread
    ret          \* what the last step returned to, or did for, its caller

vars == <<variant, m_instance, m_tasks, task, worker, posted, created, caller,
          destructing, ret>>

\* ------------------------------------------------------------ Task object
\* TorrentCreationTask::TorrentCreationTask
NewTask(id, params) ==
    [alive |-> TRUE, m_id |-> id, m_params |-> params,
     m_started |-> FALSE, m_done |-> FALSE, m_progress |-> 0,
     m_errorMsg |-> "", m_result |-> NoResult]

\* a slot holding no object: nothing constructed yet, or the object deleted
NoTask ==
    [alive |-> FALSE, m_id |-> "a", m_params |-> [inputPath |-> "in", pieceSize |-> AutoPieceSize],
     m_started |-> FALSE, m_done |-> FALSE, m_progress |-> 0,
     m_errorMsg |-> "", m_result |-> NoResult]

\* handleProgress that keeps the bytes produced so far as the result
handleProgress_StoresPartial(t, progress) ==
    [t EXCEPT !.m_started = TRUE, !.m_progress = progress,
              !.m_result.content = "c"]

\* handleProgress that stores what is left to do
handleProgress_Remaining(t, progress) ==
    [t EXCEPT !.m_started = TRUE, !.m_progress = 100 - progress]

handleProgress(t, progress) ==
    [t EXCEPT !.m_started = TRUE, !.m_progress = progress]

\* handleFailure that marks the task done and not started
handleFailure_NoStart(t, msg) ==
    [t EXCEPT !.m_done = TRUE, !.m_errorMsg = msg]

\* handleFailure that also forgets the input path
handleFailure_ClearsParams(t, msg) ==
    [t EXCEPT !.m_started = TRUE, !.m_done = TRUE, !.m_errorMsg = msg,
              !.m_params.inputPath = ""]

handleFailure(t, msg) ==
    [t EXCEPT !.m_started = TRUE, !.m_done = TRUE, !.m_errorMsg = msg]

\* handleSuccess without the back-fill of params.pieceSize
handleSuccess_NoBackfill(v, t, result) ==
    [t EXCEPT !.m_started = TRUE, !.m_done = TRUE,
              !.m_result = IF v = "controller"
                           THEN [NoResult EXCEPT !.content = result.content]
                           ELSE result]

\* the manager keeps the whole result, the controller only result.content
handleSuccess(v, t, result) ==
    [t EXCEPT !.m_started = TRUE, !.m_done = TRUE,
              !.m_result = IF v = "controller"
                           THEN [NoResult EXCEPT !.content = result.content]
                           ELSE result,
              !.m_params.pieceSize = result.pieceSize]

isDoneWithSuccess(v, t) ==
    IF v = "controller"
    THEN t.m_done /\ t.m_result.content # ""
    ELSE t.m_done /\ (t.m_result.content # "" \/ t.m_result.path # "")

isDoneWithError(v, t) ==
    IF v = "controller"
    THEN t.m_done /\ (t.m_errorMsg # "" \/ t.m_result.content = "")
    ELSE t.m_done /\ t.m_errorMsg # ""

isRunning(t) == t.m_started /\ ~t.m_done

\* file: what QFile gives for m_result.path at the time of the call
content(v, t, file) ==
    IF v = "controller" THEN t.m_result.content
    ELSE IF ~isDoneWithSuccess(v, t) THEN ""
    ELSE IF t.m_result.content # "" THEN t.m_result.content
    ELSE IF ~file.open THEN ""
    ELSE file.bytes

progress(t) == t.m_progress
errorMsg(t) == t.m_errorMsg
params(t) == t.m_params

\* ------------------------------------------------------------ Worker object
NoWorker ==
    [state |-> "none", interrupted |-> FALSE, taskId |-> "a",
     startSeeding |-> FALSE, last |-> 0]

\* new TorrentCreator(params, this), not yet handed to the pool
NewWorker(id, startSeeding) ==
    [state |-> "queued", interrupted |-> FALSE, taskId |-> id,
     startSeeding |-> startSeeding, last |-> 0]

\* the pool deletes a TorrentCreator whose run() returned; the closures of
\* its connections live on only in the events still posted (q)
Retire(w, q) ==
    IF w.state = "finished" /\ q = <<>>
    THEN [w EXCEPT !.taskId = "a", !.startSeeding = FALSE, !.last = 0,
                   !.interrupted = FALSE]
    ELSE w

\* ------------------------------------------------------------ Registry
getTask(id) == m_tasks[id]

\* taskIds that lists the id of every task ever constructed
taskIds_Allocated == {task[k].m_id : k \in 1..created}

taskIds == {id \in Ids : m_tasks[id] # NoObj}

EmptyTasks == [id \in Ids |-> NoObj]

\* the object receiving event e of worker k: the task for a connection made
\* to creationTask, the manager for a connection made to a lambda with
\* context `this`
ReceiverIsTask(v, e) == v # "byId" \/ e.kind = "progress"

\* events posted to a destroyed task are dropped with it
DropForTask(v, q) == SelectSeq(q, LAMBDA e : ~ReceiverIsTask(v, e))

\* the destroyed() signal left unconnected
requestInterruption_Unconnected(w) == w

\* QObject::destroyed -> TorrentCreator::requestInterruption; a finished
\* TorrentCreator was deleted by the pool and its connection with it
requestInterruption(w) ==
    IF w.state \in {"queued", "running"} THEN [w EXCEPT !.interrupted = TRUE] ELSE w

TypeOK ==
    /\ variant \in Variants
    /\ m_instance \in BOOLEAN
    /\ m_tasks \in [Ids -> Objs \cup {NoObj}]
    /\ created \in 0..MaxTasks
    /\ \A k \in Objs : Len(posted[k]) <= MaxPending

Init ==
    /\ variant \in Variants
    /\ m_instance = (variant = "controller")
    /\ m_tasks = EmptyTasks
    /\ task = [k \in Objs |-> NoTask]
    /\ worker = [k \in Objs |-> NoWorker]
    /\ posted = [k \in Objs |-> <<>>]
    /\ created = 0
    /\ caller = [t \in Threads |-> [pc |-> "idle", taskId |-> "a"]]
    /\ destructing = FALSE
    /\ ret = NoRet

\* instance that constructs a registry on every call
instance_AlwaysNew ==
    /\ variant # "controller"
    /\ ~destructing
    /\ m_instance' = TRUE
    /\ m_tasks' = EmptyTasks
    /\ ret' = [op |-> "instance", constructed |-> TRUE]
    /\ UNCHANGED <<variant, task, worker, posted, created, caller, destructing>>

\* TorrentCreationManager::instance
instance ==
    /\ variant # "controller"
    /\ ~destructing
    /\ m_instance' = TRUE
    /\ m_tasks' = IF m_instance THEN m_tasks ELSE EmptyTasks
    /\ ret' = [op |-> "instance", constructed |-> ~m_instance]
    /\ UNCHANGED <<variant, task, worker, posted, created, caller, destructing>>

\* the first id drawn is taken, whatever the registry holds
FreshIds_NoRetry == Ids

\* the ids the generate-and-retry loop can leave in taskId: the loop draws
\* again while the registry contains the candidate
FreshIds == {id \in Ids : m_tasks[id] = NoObj}

\* createTask that hands the worker to the pool and does not insert the task
Insert_Dropped(v, tasks, id, k) == tasks

\* m_tasks[taskId] = creationTask replaces what the key held; the id index
\* of tasksById() is unique and insert() leaves an equal key in place
Insert(v, tasks, id, k) ==
    IF v = "byId" /\ tasks[id] # NoObj THEN tasks
    ELSE [tasks EXCEPT ![id] = k]

\* the part of createTask after the loop: both objects constructed, the
\* connections made, the task inserted, the worker handed to the pool
Register(id, p, startSeeding) ==
    /\ startSeeding => variant = "byId"
    /\ LET k == created + 1 IN
        /\ created' = k
        /\ task' = [task EXCEPT ![k] = NewTask(id, p)]
        /\ worker' = [worker EXCEPT ![k] = NewWorker(id, startSeeding)]
        /\ m_tasks' = Insert(variant, m_tasks, id, k)
    /\ ret' = [op |-> "createTask", id |-> id]

\* TorrentCreationManager::createTask / MetafileController::createAction,
\* called on the dispatching thread
createTask(id, p, startSeeding) ==
    /\ m_instance /\ ~destructing
    /\ created < MaxTasks
    /\ id \in FreshIds
    /\ Register(id, p, startSeeding)
    /\ UNCHANGED <<variant, m_instance, posted, caller, destructing>>

\* createTask called on thread t, no lock taken: the loop has ended with a
\* candidate the registry did not contain when it was looked up
InCreate == {t \in Threads : caller[t].pc = "checked"}

createCheck(t, id) ==
    /\ m_instance /\ ~destructing
    /\ caller[t].pc = "idle"
    /\ created + Cardinality(InCreate) < MaxTasks
    /\ id \in FreshIds
    /\ caller' = [caller EXCEPT ![t] = [pc |-> "checked", taskId |-> id]]
    /\ ret' = NoRet
    /\ UNCHANGED <<variant, m_instance, m_tasks, task, worker, posted, created,
                   destructing>>

\* ... and thread t goes on to construct, connect, insert and start
createInsert(t, p, startSeeding) ==
    /\ m_instance /\ ~destructing
    /\ caller[t].pc = "checked"
    /\ Register(caller[t].taskId, p, startSeeding)
    /\ caller' = [caller EXCEPT ![t] = [pc |-> "idle", taskId |-> "a"]]
    /\ UNCHANGED <<variant, m_instance, posted, destructing>>

\* deleteTask that requests interruption of every worker
deleteTask_InterruptsAll(id) ==
    /\ m_instance /\ ~destructing
    /\ IF m_tasks[id] = NoObj
       THEN /\ ret' = [op |-> "deleteTask", id |-> id, found |-> FALSE]
            /\ UNCHANGED <<m_tasks, task, worker, posted>>
       ELSE LET k == m_tasks[id] IN
            /\ task' = [task EXCEPT ![k] = NoTask]
            /\ posted' = [posted EXCEPT ![k] = DropForTask(variant, posted[k])]
            /\ worker' = [j \in Objs |->
                   IF j = k THEN Retire(requestInterruption(worker[k]), posted'[k])
                   ELSE requestInterruption(worker[j])]
            /\ m_tasks' = [m_tasks EXCEPT ![id] = NoObj]
            /\ ret' = [op |-> "deleteTask", id |-> id, found |-> TRUE]
    /\ UNCHANGED <<variant, m_instance, created, caller, destructing>>

\* deleteTask that destroys the task and leaves its entry in the map
deleteTask_NoErase(id) ==
    /\ m_instance /\ ~destructing
    /\ IF m_tasks[id] = NoObj
       THEN /\ ret' = [op |-> "deleteTask", id |-> id, found |-> FALSE]
            /\ UNCHANGED <<m_tasks, task, worker, posted>>
       ELSE LET k == m_tasks[id] IN
            /\ task' = [task EXCEPT ![k] = NoTask]
            /\ posted' = [posted EXCEPT ![k] = DropForTask(variant, posted[k])]
            /\ worker' = [worker EXCEPT ![k] =
                   Retire(requestInterruption(worker[k]), posted'[k])]
            /\ m_tasks' = m_tasks
            /\ ret' = [op |-> "deleteTask", id |-> id, found |-> TRUE]
    /\ UNCHANGED <<variant, m_instance, created, caller, destructing>>

\* TorrentCreationManager::deleteTask / MetafileController::deleteAction
deleteTask(id) ==
    /\ m_instance /\ ~destructing
    /\ IF m_tasks[id] = NoObj
       THEN /\ ret' = [op |-> "deleteTask", id |-> id, found |-> FALSE]
            /\ UNCHANGED <<m_tasks, task, worker, posted>>
       ELSE LET k == m_tasks[id] IN
            /\ task' = [task EXCEPT ![k] = NoTask]
            /\ posted' = [posted EXCEPT ![k] = DropForTask(variant, posted[k])]
            /\ worker' = [worker EXCEPT ![k] =
                   Retire(requestInterruption(worker[k]), posted'[k])]
            /\ m_tasks' = [m_tasks EXCEPT ![id] = NoObj]
            /\ ret' = [op |-> "deleteTask", id |-> id, found |-> TRUE]
    /\ UNCHANGED <<variant, m_instance, created, caller, destructing>>

\* ------------------------------------------------------------ Thread pool
Running == {k \in Objs : worker[k].state = "running"}

\* a pool that hands no thread to a queued TorrentCreator once another one
\* has taken it
StartWorker_NoReuse(k) ==
    /\ worker[k].state = "queued"
    /\ \A j \in Objs \ {k} : worker[j].state \in {"none", "queued"}
    /\ worker' = [worker EXCEPT ![k].state = "running"]
    /\ ret' = NoRet
    /\ UNCHANGED <<variant, m_instance, m_tasks, task, posted, created, caller, destructing>>

\* QThreadPool: a queued TorrentCreator starts when a thread is free
StartWorker(k) ==
    /\ worker[k].state = "queued"
    /\ Cardinality(Running) < MaxThreads
    /\ worker' = [worker EXCEPT ![k].state = "running"]
    /\ ret' = NoRet
    /\ UNCHANGED <<variant, m_instance, m_tasks, task, posted, created, caller, destructing>>

\* does the object that receives event e of worker k still exist
ReceiverExists(k, e) ==
    IF ReceiverIsTask(variant, e) THEN task[k].alive ELSE m_instance /\ ~destructing

\* emit of a signal on the pool thread: one posted event per live connection
Post(k, e) ==
    IF ReceiverExists(k, e)
    THEN /\ Len(posted[k]) < MaxPending
         /\ posted' = [posted EXCEPT ![k] = Append(@, e)]
    ELSE UNCHANGED posted

\* TorrentCreator emits updateProgress(v), v never below the last value
EmitProgress(k, v) ==
    /\ worker[k].state = "running"
    /\ v >= worker[k].last
    /\ Post(k, [kind |-> "progress", value |-> v])
    /\ worker' = [worker EXCEPT ![k].last = v]
    /\ ret' = NoRet
    /\ UNCHANGED <<variant, m_instance, m_tasks, task, created, caller, destructing>>

\* TorrentCreator emits creationSuccess(result) and its run() returns
EmitSuccess(k, r) ==
    /\ worker[k].state = "running"
    /\ Post(k, [kind |-> "success", result |-> r])
    /\ worker' = [worker EXCEPT ![k] = Retire([@ EXCEPT !.state = "finished"], posted'[k])]
    /\ ret' = NoRet
    /\ UNCHANGED <<variant, m_instance, m_tasks, task, created, caller, destructing>>

\* TorrentCreator emits creationFailure(msg) and its run() returns
EmitFailure(k, msg) ==
    /\ worker[k].state = "running"
    /\ Post(k, [kind |-> "failure", msg |-> msg])
    /\ worker' = [worker EXCEPT ![k] = Retire([@ EXCEPT !.state = "finished"], posted'[k])]
    /\ ret' = NoRet
    /\ UNCHANGED <<variant, m_instance, m_tasks, task, created, caller, destructing>>

\* an interrupted TorrentCreator may return from run() without any signal
Abort(k) ==
    /\ worker[k].state = "running"
    /\ worker[k].interrupted
    /\ worker' = [worker EXCEPT ![k] = Retire([@ EXCEPT !.state = "finished"], posted[k])]
    /\ ret' = NoRet
    /\ UNCHANGED <<variant, m_instance, m_tasks, task, posted, created, caller, destructing>>

\* ------------------------------------------------------------ Delivery
\* the task a delivered event e of worker k is applied to (NoObj: none)
Target(k, e) ==
    IF ReceiverIsTask(variant, e)
    THEN (IF task[k].alive THEN k ELSE NoObj)
    ELSE getTask(worker[k].taskId)

Apply(t, e) ==
    CASE e.kind = "progress" -> handleProgress(t, e.value)
      [] e.kind = "failure" -> handleFailure(t, e.msg)
      [] e.kind = "success" -> handleSuccess(variant, t, e.result)

\* onSuccess calls result.startSeeding before it looks the task up
SeedsOnDelivery(k, e) ==
    variant = "byId" /\ e.kind = "success" /\ worker[k].startSeeding

\* the dispatching thread delivers the oldest posted event of worker k:
\* the slot TorrentCreationTask::handle*, or the lambda onSuccess/onFailure
Deliver(k) ==
    /\ ~destructing
    /\ posted[k] # <<>>
    /\ LET e == Head(posted[k])
           o == Target(k, e)
       IN /\ posted' = [posted EXCEPT ![k] = Tail(@)]
          /\ task' = IF o = NoObj THEN task
                     ELSE [task EXCEPT ![o] = Apply(task[o], e)]
          /\ worker' = [worker EXCEPT ![k] = Retire(@, Tail(posted[k]))]
          /\ ret' = IF SeedsOnDelivery(k, e)
                    THEN [op |-> "startSeeding", id |-> worker[k].taskId]
                    ELSE NoRet
    /\ UNCHANGED <<variant, m_instance, m_tasks, created, caller, destructing>>

\* ------------------------------------------------------------ Teardown
Unfinished == {k \in Objs : worker[k].state \in {"queued", "running"}}

\* TorrentCreationManager::freeInstance: delete m_instance runs
\* ~TorrentCreationManager, whose body qDeleteAll(m_tasks) destroys every
\* task (each destroyed() signal requests interruption of its worker)
freeInstance ==
    /\ variant # "controller"
    /\ ~destructing
    /\ IF ~m_instance
       THEN UNCHANGED <<destructing, m_tasks, task, worker, posted>>
       ELSE /\ destructing' = TRUE
            /\ m_tasks' = EmptyTasks
            /\ task' = [k \in Objs |-> NoTask]
            /\ posted' = [k \in Objs |-> <<>>]
            /\ worker' = [k \in Objs |-> Retire(requestInterruption(worker[k]), <<>>)]
    /\ ret' = NoRet
    /\ UNCHANGED <<variant, m_instance, created, caller>>

\* destruction that does not wait for the pool
finishDestruction_NoWait ==
    /\ destructing
    /\ destructing' = FALSE
    /\ m_instance' = FALSE
    /\ ret' = NoRet
    /\ UNCHANGED <<variant, m_tasks, task, worker, posted, created, caller>>

\* the member m_threadPool is destroyed next: ~QThreadPool returns once no
\* TorrentCreator is queued or running; ~QObject then clears m_instance
finishDestruction ==
    /\ destructing
    /\ Unfinished = {}
    /\ destructing' = FALSE
    /\ m_instance' = FALSE
    /\ ret' = NoRet
    /\ UNCHANGED <<variant, m_tasks, task, worker, posted, created, caller>>

\* the "status" a poll reports for one task
StatusOf(v, t) ==
    IF isDoneWithError(v, t) THEN "Error"
    ELSE IF isDoneWithSuccess(v, t) THEN "Done"
    ELSE IF isRunning(t) THEN "Processing"
    ELSE "Pending"

\* the fields of taskJson that depend on the task's progress
taskJson(v, i, t) ==
    IF StatusOf(v, t) = "Error"
    THEN [id |-> i, status |-> "Error", error_msg |-> errorMsg(t)]
    ELSE IF StatusOf(v, t) = "Processing"
    THEN [id |-> i, status |-> "Processing", progress |-> progress(t)]
    ELSE [id |-> i, status |-> StatusOf(v, t)]

\* the id parameter of a status request that names no task
EmptyId == ""

\* statusAction that answers for whatever ids it is given
statusAction_NoCheck(id) ==
    /\ variant = "controller"
    /\ ret' = [op |-> "statusAction", id |-> id, error |-> "none",
               result |-> [i \in (IF id = EmptyId THEN taskIds ELSE {id} \cap taskIds)
                             |-> taskJson(variant, i, task[getTask(i)])]]
    /\ UNCHANGED <<variant, m_instance, m_tasks, task, worker, posted, created,
                   caller, destructing>>

\* MetafileController::statusAction
statusAction(id) ==
    /\ variant = "controller"
    /\ IF id # EmptyId /\ getTask(id) = NoObj
       THEN ret' = [op |-> "statusAction", id |-> id, error |-> "NotFound"]
       ELSE ret' = [op |-> "statusAction", id |-> id, error |-> "none",
                    result |-> [i \in (IF id = EmptyId THEN taskIds ELSE {id})
                                  |-> taskJson(variant, i, task[getTask(i)])]]
    /\ UNCHANGED <<variant, m_instance, m_tasks, task, worker, posted, created,
                   caller, destructing>>

\* MetafileController::getFileAction
getFileAction(id) ==
    /\ variant = "controller"
    /\ IF getTask(id) = NoObj
       THEN ret' = [op |-> "getFileAction", id |-> id, error |-> "NotFound"]
       ELSE \E f \in FileStates :
              ret' = [op |-> "getFileAction", id |-> id, error |-> "none",
                      data |-> content(variant, task[getTask(id)], f)]
    /\ UNCHANGED <<variant, m_instance, m_tasks, task, worker, posted, created,
                   caller, destructing>>

Next ==
    \/ instance
    \/ freeInstance
    \/ finishDestruction
    \/ \E id \in Ids, p \in Params, s \in BOOLEAN : createTask(id, p, s)
    \/ \E id \in Ids : deleteTask(id)
    \/ \E k \in Objs : StartWorker(k)
    \/ \E k \in Objs, v \in ProgressVals : EmitProgress(k, v)
    \/ \E k \in Objs, r \in Results : EmitSuccess(k, r)
    \/ \E k \in Objs, msg \in Msgs : EmitFailure(k, msg)
    \/ \E k \in Objs : Abort(k)
    \/ \E k \in Objs : Deliver(k)
    \/ \E id \in Ids \cup {EmptyId} : statusAction(id)
    \/ \E id \in Ids : getFileAction(id)

Spec == Init /\ [][Next]_vars

\* run() of TorrentCreator k returns: after its one terminal signal, or
\* after none when it was interrupted
Terminate(k) ==
    \/ \E r \in Results : EmitSuccess(k, r)
    \/ \E msg \in Msgs : EmitFailure(k, msg)
    \/ Abort(k)

\* a free pool thread takes a queued worker, every run() returns, and the
\* event loop of the dispatching thread delivers what is posted
Fairness ==
    \A k \in Objs :
        /\ WF_vars(StartWorker(k))
        /\ SF_vars(Terminate(k))
        /\ WF_vars(Deliver(k))

SpecLive == Init /\ [][Next]_vars /\ Fairness

\* createTask entered from several threads at once, with deletion and the
\* success path of the workers going on beside it
NextMT ==
    \/ instance
    \/ \E t \in Threads, id \in Ids : createCheck(t, id)
    \/ \E t \in Threads, p \in Params, s \in BOOLEAN : createInsert(t, p, s)
    \/ \E id \in Ids : deleteTask(id)
    \/ \E k \in Objs : StartWorker(k)
    \/ \E k \in Objs, r \in Results : EmitSuccess(k, r)
    \/ \E k \in Objs : Deliver(k)

SpecMT == Init /\ [][NextMT]_vars

\* ================================================================ claims
Live == {k \in Objs : task[k].alive}

\* the file states QFile can find at a path: the empty path opens nothing
FileStatesAt(path) ==
    IF path = "" THEN {f \in FileStates : ~f.open} ELSE FileStates

\* everything a caller can read from a task
Observable(v, t) ==
    [progress |-> progress(t), isRunning |-> isRunning(t),
     isDoneWithSuccess |-> isDoneWithSuccess(v, t),
     isDoneWithError |-> isDoneWithError(v, t),
     errorMsg |-> errorMsg(t), params |-> params(t),
     content |-> [f \in FileStates |-> content(v, t, f)]]

\* the step delivers event e of worker k to the live task o
Delivers(k, e, o) ==
    /\ Deliver(k)
    /\ e = Head(posted[k])
    /\ o = Target(k, e)
    /\ o # NoObj

\* C1: the ids of the tasks the registry holds are pairwise distinct, and the
\* id a createTask call returns is the key of the task that call made and of
\* no task that was registered before the call
C1_IdsDistinct ==
    /\ \A j, k \in Live : j # k => task[j].m_id # task[k].m_id
    /\ ret.op = "createTask" =>
          /\ getTask(ret.id) = created
          /\ task[created].m_id = ret.id
          /\ \A j \in Live \ {created} : getTask(task[j].m_id) = j

C1_Witness ==
    /\ ret.op = "createTask"
    /\ Cardinality(Live) = 2
    /\ Cardinality(taskIds) = 2

\* C2: an event of a worker delivered after its task was deleted changes
\* neither the registry nor any task
C2_LateEventNoOp ==
    [][\A k \in Objs : (Deliver(k) /\ ~task[k].alive) =>
          (task' = task /\ m_tasks' = m_tasks)]_vars

\* C3: deleteTask(id) returns whether id was registered; an unknown id leaves
\* the registry as it was; afterwards getTask(id) finds nothing and a
\* deleteTask(id) that follows a successful one returns false
C3_DeleteTask ==
    [][\A id \in Ids : deleteTask(id) =>
          /\ ret' = [op |-> "deleteTask", id |-> id, found |-> getTask(id) # NoObj]
          /\ getTask(id) = NoObj => UNCHANGED <<m_tasks, task, worker, posted>>
          /\ getTask(id)' = NoObj
          /\ (ret.op = "deleteTask" /\ ret.id = id /\ ret.found) => ~ret'.found]_vars

C3_Witness ==
    /\ ret.op = "deleteTask"
    /\ ~ret.found
    /\ created > 0
    /\ taskIds # {}

\* C4: a worker whose task was destroyed before the worker finished has been
\* asked to interrupt
C4_InterruptOnDelete ==
    \A k \in Objs :
        (~task[k].alive /\ worker[k].state \in {"queued", "running"})
            => worker[k].interrupted

C4_Witness ==
    /\ ~destructing
    /\ ret.op = "deleteTask"
    /\ \E k \in Objs : ~task[k].alive /\ worker[k].state = "running"
                         /\ worker[k].interrupted

\* C5 as stated: a delivered success event with any result R makes the task
\* done with success, not running, with R's piece size, and content() gives
\* R's inline bytes, or else the bytes of the file at R's path
C5_SuccessAnyResult ==
    [][\A k \in Objs, e \in Events, o \in Objs :
          (Delivers(k, e, o) /\ e.kind = "success") =>
             LET t == task'[o] R == e.result IN
             /\ isDoneWithSuccess(variant, t)
             /\ ~isRunning(t)
             /\ params(t).pieceSize = R.pieceSize
             /\ \A f \in FileStatesAt(R.path) :
                   content(variant, t, f) =
                      IF R.content # "" THEN R.content ELSE f.bytes]_vars

\* the results for which a task counts as done with success: inline bytes,
\* or, where the whole result is kept, an output path
Usable(v, R) == R.content # "" \/ (v # "controller" /\ R.path # "")

\* C5 amended: for a result with inline bytes, or (in TorrentCreationManager)
\* with an output path, a delivered success event makes the task done with
\* success, not running, with R's piece size; content() gives the inline
\* bytes, else the bytes of the file at R's path, else (file not opened)
\* nothing
C5_SuccessUsableResult ==
    [][\A k \in Objs, e \in Events, o \in Objs :
          (Delivers(k, e, o) /\ e.kind = "success" /\ Usable(variant, e.result)) =>
             LET t == task'[o] R == e.result IN
             /\ isDoneWithSuccess(variant, t)
             /\ ~isRunning(t)
             /\ params(t).pieceSize = R.pieceSize
             /\ \A f \in FileStatesAt(R.path) :
                   content(variant, t, f) =
                      IF R.content # "" THEN R.content
                      ELSE IF f.open THEN f.bytes ELSE ""]_vars

C5_Witness ==
    \E k \in Live :
        /\ variant # "controller"
        /\ task[k].m_done
        /\ task[k].m_result.path # ""
        /\ params(task[k]).pieceSize \in ResultPieceSizes
        /\ \E f \in FileStates : content(variant, task[k], f) = "f"

\* C6: a delivered failure event with message M makes the task done with
\* error and not done with success, errorMsg() = M, content() empty
C6_Failure ==
    [][\A k \in Objs, e \in Events, o \in Objs :
          (Delivers(k, e, o) /\ e.kind = "failure") =>
             LET t == task'[o] IN
             /\ isDoneWithError(variant, t)
             /\ ~isDoneWithSuccess(variant, t)
             /\ errorMsg(t) = e.msg
             /\ \A f \in FileStates : content(variant, t, f) = ""]_vars

\* C7: an event delivered to a task that is done changes nothing a caller
\* can read from the task
C7_TerminalIsFinal ==
    [][\A k \in Objs, e \in Events, o \in Objs :
          (Delivers(k, e, o) /\ task[o].m_done) =>
             Observable(variant, task'[o]) = Observable(variant, task[o])]_vars

\* C8: with createTask entered concurrently, no two live tasks share an id
\* and every live task is still the one registered under its id
C8_CreateAtomic ==
    /\ \A j, k \in Live : j # k => task[j].m_id # task[k].m_id
    /\ \A k \in Live : getTask(task[k].m_id) = k

\* C9: an event of worker k changes no task but the k-th, the one made in the
\* same createTask call
C9_OwnTaskOnly ==
    [][\A k \in Objs : Deliver(k) =>
          \A o \in Objs \ {k} : task'[o] = task[o]]_vars

\* C10: while and after the registry is torn down no task is registered or
\* alive and no event is pending; while it is torn down every unfinished
\* worker has been asked to interrupt, and afterwards none is unfinished
C10_Teardown ==
    (destructing \/ ~m_instance) =>
        /\ taskIds = {}
        /\ Live = {}
        /\ \A k \in Objs : posted[k] = <<>>
        /\ \A k \in Unfinished : destructing /\ worker[k].interrupted

C10_Witness ==
    /\ destructing
    /\ created > 0
    /\ \E k \in Objs : worker[k].state = "running" /\ worker[k].interrupted

\* the task is Pending: nothing a caller reads shows a start or an outcome
Pending(v, t) ==
    /\ ~t.m_started /\ ~t.m_done
    /\ ~isRunning(t) /\ ~isDoneWithSuccess(v, t) /\ ~isDoneWithError(v, t)
    /\ \A f \in FileStates : content(v, t, f) = ""

\* C11: a task is Pending when createTask has made it, and stays Pending in
\* every step that does not deliver an event of its own worker
C11_PendingUntilOwnEvent ==
    [][\A k \in Objs :
          (task'[k].alive /\ (~task[k].alive \/ (Pending(variant, task[k]) /\ ~Deliver(k))))
             => Pending(variant, task'[k])]_vars

\* C12: in the HTTP controller delete, status with a non-empty id and getFile
\* on an id absent from the task map end in NotFound and change neither the
\* map nor any task; status with an empty id lists every registered task
C12_NotFound ==
    [][variant = "controller" =>
          /\ \A id \in Ids : getTask(id) = NoObj =>
                /\ deleteTask(id) =>
                      ~ret'.found /\ UNCHANGED <<m_tasks, task, worker, posted>>
                /\ statusAction(id) =>
                      ret'.error = "NotFound" /\ UNCHANGED <<m_tasks, task, worker, posted>>
                /\ getFileAction(id) =>
                      ret'.error = "NotFound" /\ UNCHANGED <<m_tasks, task, worker, posted>>
          /\ statusAction(EmptyId) =>
                /\ ret'.error = "none"
                /\ DOMAIN ret'.result = taskIds
                /\ \A i \in taskIds :
                      ret'.result[i].status = StatusOf(variant, task[getTask(i)])
                /\ UNCHANGED <<m_tasks, task, worker, posted>>]_vars

\* a status request for an absent id was refused while another task is
\* registered and has made progress
C12_Witness ==
    /\ variant = "controller"
    /\ ret.op = "statusAction" /\ ret.id \in Ids /\ ret.error = "NotFound"
    /\ getTask(ret.id) = NoObj
    /\ \E k \in Live : task[k].m_started

\* C13: taskIds lists exactly the ids getTask finds a task for, each id for
\* one task: the ids of the tasks created and not deleted, and no other
C13_TaskIds ==
    /\ \A id \in Ids :
          id \in taskIds <=>
             /\ getTask(id) # NoObj
             /\ task[getTask(id)].alive
             /\ task[getTask(id)].m_id = id
    /\ taskIds = {task[k].m_id : k \in Live}
    /\ Cardinality(taskIds) = Cardinality(Live)

\* one task is listed after another was created and deleted
C13_Witness ==
    /\ Cardinality(taskIds) = 1
    /\ created = MaxTasks
    /\ \E k \in Objs : k <= created /\ ~task[k].alive

\* C14: instance constructs the registry only when there is none, and then it
\* is empty; when one exists instance returns it with its tasks untouched
C14_Singleton ==
    [][instance =>
          /\ m_instance'
          /\ ret'.constructed = ~m_instance
          /\ IF m_instance
             THEN UNCHANGED <<m_tasks, task, worker, posted>>
             ELSE /\ m_tasks' = EmptyTasks
                  /\ \A k \in Objs : ~task'[k].alive /\ posted'[k] = <<>>]_vars

\* an existing registry that holds a task was returned by instance
C14_Witness ==
    /\ ret.op = "instance" /\ ~ret.constructed
    /\ taskIds # {}

\* C15: a task that is done reports exactly one of isDoneWithSuccess and
\* isDoneWithError, whatever result or message its worker reported
C15_ExactlyOneOutcome ==
    \A k \in Live :
        task[k].m_done =>
            (isDoneWithSuccess(variant, task[k]) # isDoneWithError(variant, task[k]))

\* how far along the lifecycle a reported status is
StatusRank(st) ==
    IF st = "Pending" THEN 0 ELSE IF st = "Processing" THEN 1 ELSE 2

\* C16: the status polled for one task never moves backwards along
\* Pending -> Processing -> {Done, Error}, a reported Done or Error is
\* reported on every later poll, and a task that received a terminal event
\* is reported as Done or Error
C16_StatusForward ==
    [][\A k \in Objs :
          /\ (task[k].alive /\ task'[k].alive) =>
                /\ StatusRank(StatusOf(variant, task'[k]))
                      >= StatusRank(StatusOf(variant, task[k]))
                /\ StatusOf(variant, task[k]) \in {"Done", "Error"}
                      => StatusOf(variant, task'[k]) = StatusOf(variant, task[k])
          /\ (task'[k].alive /\ task'[k].m_done)
                => StatusOf(variant, task'[k]) \in {"Done", "Error"}]_vars

\* C17: once a worker is handed to the pool its task is registered under its
\* id until it is deleted, so an event whose lookup finds no task is an event
\* of a deleted task
C17_InsertedBeforeStart ==
    \A k \in Objs :
        /\ ((worker[k].state \in {"queued", "running"} \/ posted[k] # <<>>)
               /\ task[k].alive)
              => getTask(worker[k].taskId) = k /\ task[k].m_id = worker[k].taskId
        /\ (posted[k] # <<>> /\ Target(k, Head(posted[k])) = NoObj)
              => ~task[k].alive

\* a success or failure event that is routed by the id lookup is pending for
\* a registered task
C17_Witness ==
    /\ variant = "byId"
    /\ \E k \in Live :
          /\ posted[k] # <<>>
          /\ Head(posted[k]).kind \in {"success", "failure"}
          /\ getTask(worker[k].taskId) = k

\* C18: while a task is Running its progress() never decreases from one
\* state to the next, and it lies within 0..100
C18_ProgressMonotone ==
    [][\A k \in Objs :
          /\ (task[k].alive /\ task'[k].alive
                /\ isRunning(task[k]) /\ isRunning(task'[k]))
                => progress(task'[k]) >= progress(task[k])
          /\ (task'[k].alive /\ isRunning(task'[k]))
                => progress(task'[k]) \in 0..100]_vars

\* a Running task shows a progress above zero and a higher one is pending
C18_Witness ==
    \E k \in Live :
        /\ isRunning(task[k])
        /\ progress(task[k]) > 0
        /\ posted[k] # <<>>
        /\ Head(posted[k]).kind = "progress"
        /\ Head(posted[k]).value > progress(task[k])

\* C19: a step changes a task's params only by delivering a success event to
\* it, and then only params.pieceSize changes, to the result's piece size
C19_ParamsFrame ==
    [][\A o \in Objs :
          (task[o].alive /\ task'[o].alive /\ params(task'[o]) # params(task[o]))
             => \E k \in Objs, e \in Events :
                   /\ Delivers(k, e, o)
                   /\ e.kind = "success"
                   /\ params(task'[o]) =
                         [params(task[o]) EXCEPT !.pieceSize = e.result.pieceSize]]_vars

\* a task took a failure event after progress, and its params are the ones
\* createTask was given
C19_Witness ==
    \E k \in Live :
        /\ task[k].m_done /\ task[k].m_errorMsg # "" /\ progress(task[k]) > 0
        /\ params(task[k]) \in Params

\* C20: deleteTask(id) leaves every task but the one registered under id, its
\* worker, its pending events and its registration as they were, and no step
\* of a worker or delivery of its event changes which ids are registered
C20_DeleteFrame ==
    [][/\ \A id \in Ids : deleteTask(id) =>
             /\ \A o \in Objs \ {getTask(id)} :
                   /\ task'[o] = task[o]
                   /\ worker'[o] = worker[o]
                   /\ posted'[o] = posted[o]
             /\ \A i \in Ids \ {id} : m_tasks'[i] = m_tasks[i]
       /\ \A k \in Objs :
             (\/ StartWorker(k)
              \/ \E v \in ProgressVals : EmitProgress(k, v)
              \/ \E r \in Results : EmitSuccess(k, r)
              \/ \E msg \in Msgs : EmitFailure(k, msg)
              \/ Abort(k)
              \/ Deliver(k)) => m_tasks' = m_tasks]_vars

\* a task was deleted while its worker was unfinished, and another task is
\* registered whose worker is unfinished and not interrupted
C20_Witness ==
    /\ ret.op = "deleteTask" /\ ret.found
    /\ \E j \in Objs : ~task[j].alive /\ worker[j].interrupted
    /\ \E k \in Live :
          /\ getTask(task[k].m_id) = k
          /\ worker[k].state \in {"queued", "running"}
          /\ ~worker[k].interrupted

\* C21: a task an event is delivered to is started from then on, a done task
\* is started, and neither started nor done goes back to false while the
\* task lives
C21_StartedDoneMonotone ==
    [][\A o \in Objs :
          /\ (\E k \in Objs, e \in Events : Delivers(k, e, o))
                => task'[o].m_started
          /\ (task'[o].alive /\ task'[o].m_done) => task'[o].m_started
          /\ (task[o].alive /\ task'[o].alive) =>
                /\ task[o].m_started => task'[o].m_started
                /\ task[o].m_done => task'[o].m_done]_vars

\* a task that took a failure event before any progress is started and done
C21_Witness ==
    \E k \in Live :
        /\ task[k].m_started /\ task[k].m_done
        /\ progress(task[k]) = 0
        /\ task[k].m_errorMsg # ""

\* C22: content() of a task that is not done-with-success is empty, whatever
\* the file system holds
C22_ContentOnlyAfterSuccess ==
    \A k \in Live :
        ~isDoneWithSuccess(variant, task[k])
            => \A f \in FileStates : content(variant, task[k], f) = ""

\* one task is Running after progress and another is done with an error
\* after progress, and neither is done-with-success
C22_Witness ==
    /\ \E k \in Live : isRunning(task[k]) /\ progress(task[k]) > 0
    /\ \E k \in Live :
          /\ isDoneWithError(variant, task[k])
          /\ ~isDoneWithSuccess(variant, task[k])
          /\ progress(task[k]) > 0

\* C23: seeding starts only in the delivery of a success event of a worker
\* whose task is still registered; the delivery of a success event of a
\* deleted task's worker starts no seeding and changes no task
C23_SeedOnlyRegistered ==
    [][\A k \in Objs :
          (Deliver(k) /\ Head(posted[k]).kind = "success") =>
             /\ ret'.op = "startSeeding"
                   => /\ worker[k].startSeeding
                      /\ task[k].alive
                      /\ getTask(worker[k].taskId) = k
             /\ ~task[k].alive
                   => ret'.op # "startSeeding" /\ task' = task]_vars

\* C24: under fair pool threads, workers whose run() returns and a running
\* event loop, every live task is eventually done unless it is deleted
C24_EventuallyDone ==
    \A k \in Objs :
        task[k].alive ~> (task[k].m_done \/ ~task[k].alive)

\* more tasks than the pool has threads are live and all of them are done
C24_Witness ==
    /\ Cardinality(Live) > MaxThreads
    /\ \A k \in Live : task[k].m_done

====
